---------------------------- MODULE Spec2Model ----------------------------
(***************************************************************************)
(* Customer-support MCP server (src/mcp_server.py) and the agents that     *)
(* call it (src/agents.py).                                                *)
(*                                                                         *)
(* The store is the SQLite database: the customers table and the tickets   *)
(* table.  Every server thread serves one JSON-RPC request at a time; a    *)
(* tool call that writes is a sequence of statements on its own            *)
(* connection (existence check, write + commit, read back), and the        *)
(* statements of different threads interleave.  A write statement and its  *)
(* commit are one step: SQLite's write lock lets no other connection       *)
(* write, or see the uncommitted row, between the two.                     *)
(***************************************************************************)
EXTENDS Integers, Sequences, FiniteSets, TLC

VARIABLES
    customers,   \* customers table: id -> row
    tickets,     \* tickets table: sequence of rows in rowid order
    now,         \* value of CURRENT_TIMESTAMP (whole seconds)
    call,        \* per server thread: the request it is serving
    ncalls,      \* requests accepted so far
    nfaults,     \* storage faults raised so far
    session      \* the RouterAgent's handling of a query (agents.py)

vars == <<customers, tickets, now, call, ncalls, nfaults, session>>

----------------------------------------------------------------------------
(* Bounds of the model *)

NumCustomers == 2        \* seeded customers 1..NumCustomers
MaxCalls == 2            \* requests the server accepts in one behaviour
MaxTime == 1             \* last value of the clock
MaxFaults == 1           \* storage faults in one behaviour

Threads == {"t1", "t2"}  \* concurrently served requests (Flask is threaded)

None == "<None>"         \* Python's None

CustIds == 1..NumCustomers
ReqIds == 1..(NumCustomers + 1)      \* ids a request may name; the last is unknown

----------------------------------------------------------------------------
(* Generic helpers *)

Range(s) == {s[i] : i \in DOMAIN s}

Min(S) == CHOOSE x \in S : \A y \in S : x <= y

RECURSIVE SortedAsc(_)
SortedAsc(S) == IF S = {} THEN <<>>
                ELSE LET m == Min(S) IN <<m>> \o SortedAsc(S \ {m})

Take(s, n) == IF n < 0 \/ n >= Len(s) THEN s ELSE SubSeq(s, 1, n)

Arg(arguments, k, default) ==
    IF k \in DOMAIN arguments THEN arguments[k] ELSE default

Permutations_(S) ==
    {p \in [1..Cardinality(S) -> S] : \A x \in S : \E i \in DOMAIN p : p[i] = x}


----------------------------------------------------------------------------
(* Encodings.  json.dumps makes a JSON text of a value and json.loads reads  *)
(* a JSON text back; create_sse_message frames a JSON text as one SSE event. *)

json_dumps(value) == [json |-> value]

IsJsonText(text) == DOMAIN text = {"json"}

json_loads(text) == text.json

create_sse_message(data) == [sse_data |-> json_dumps(data)]

----------------------------------------------------------------------------
(* Rows and SQL statements of the tools *)

CustomerStatuses == {"active", "disabled"}
TicketPriorities == {"low", "medium", "high"}
allowed_fields == {"name", "email", "phone", "status"}

SeedCustomer(c, st) ==
    [id |-> c, name |-> "Ann", email |-> "a@x.com", phone |-> "555",
     status |-> st, updated_at |-> 0]

SeedTicket(i, c, st) ==
    [id |-> i, customer_id |-> c, issue |-> "login", status |-> st,
     priority |-> "low", created_at |-> 0]

\* SELECT * FROM customers WHERE id = ?   (the rows found: one or none)
SelectCustomer(customer_id) ==
    IF customer_id \in DOMAIN customers THEN <<customers[customer_id]>> ELSE <<>>

\* (mutant) the listing without its LIMIT
SelectCustomers_no_limit(status, limit) ==
    LET ids == {c \in DOMAIN customers :
                   status = None \/ customers[c].status = status}
        ordered == SortedAsc(ids)
    IN  [i \in DOMAIN ordered |-> customers[ordered[i]]]

\* SELECT * FROM customers [WHERE status = ?] ORDER BY id LIMIT ?
\* (a negative LIMIT is no limit in SQLite)
SelectCustomers(status, limit) ==
    LET ids == {c \in DOMAIN customers :
                   status = None \/ customers[c].status = status}
        ordered == SortedAsc(ids)
    IN  [i \in DOMAIN Take(ordered, limit) |-> customers[ordered[i]]]

\* (mutant) the UPDATE sets the timestamp and only the email
UpdateCustomerRow_email_only(row, updates) ==
    [f \in DOMAIN row |->
        IF f \in DOMAIN updates /\ f = "email" THEN updates[f]
        ELSE IF f = "updated_at" THEN now
        ELSE row[f]]

\* (mutant) the UPDATE also sets the status back to 'active'
UpdateCustomerRow_resets_status(row, updates) ==
    [f \in DOMAIN row |->
        IF f \in DOMAIN updates THEN updates[f]
        ELSE IF f = "updated_at" THEN now
        ELSE IF f = "status" THEN "active"
        ELSE row[f]]

\* UPDATE customers SET <updates>, updated_at = CURRENT_TIMESTAMP WHERE id = ?
UpdateCustomerRow(row, updates) ==
    [f \in DOMAIN row |->
        IF f \in DOMAIN updates THEN updates[f]
        ELSE IF f = "updated_at" THEN now
        ELSE row[f]]

\* cur.lastrowid after the INSERT: the rowid SQLite gives the new row,
\* one more than the largest rowid of the table
NextRowId == IF tickets = <<>> THEN 1
             ELSE 1 + CHOOSE m \in {tickets[i].id : i \in DOMAIN tickets} :
                          \A i \in DOMAIN tickets : tickets[i].id <= m

\* (mutant) the INSERT binds the priority to the status column
InsertTicketRow_status_from_priority(customer_id, issue, priority) ==
    [id |-> NextRowId, customer_id |-> customer_id, issue |-> issue,
     status |-> priority, priority |-> priority, created_at |-> now]

\* INSERT INTO tickets (customer_id, issue, status, priority, created_at)
\* VALUES (?, ?, 'open', ?, CURRENT_TIMESTAMP)
InsertTicketRow(customer_id, issue, priority) ==
    [id |-> NextRowId, customer_id |-> customer_id, issue |-> issue,
     status |-> "open", priority |-> priority, created_at |-> now]

\* SELECT * FROM tickets WHERE id = ?
SelectTicket(ticket_id) ==
    LET hit == {i \in DOMAIN tickets : tickets[i].id = ticket_id}
    IN  IF hit = {} THEN <<>> ELSE <<tickets[CHOOSE i \in hit : TRUE]>>

\* SELECT * FROM tickets WHERE customer_id = ? ORDER BY created_at DESC
\* SQL leaves the order of rows with equal created_at open: every order
\* that is descending in created_at is a possible result.
SelectHistory(customer_id) ==
    LET rows == {i \in DOMAIN tickets : tickets[i].customer_id = customer_id}
    IN  {[k \in DOMAIN p |-> tickets[p[k]]] : p \in
           {q \in Permutations_(rows) :
               \A a, b \in DOMAIN q :
                  a < b => tickets[q[a]].created_at >= tickets[q[b]].created_at}}

----------------------------------------------------------------------------
(* Tool payloads *)

\* {"success": False, "error": ...}; customer_id is the id the message
\* names (0 when it names none)
Failure(msg, customer_id) ==
    [success |-> FALSE, error |-> [msg |-> msg, customer_id |-> customer_id]]

NotFound == "Customer not found"
DatabaseError == "Database error"
BadStatus == "Status must be active or disabled"
BadPriority == "Priority must be one of: low, medium, high"
NoValidFields == "No valid fields to update"

\* Python truthiness of a string or None
Truthy(v) == v # None /\ v # ""

\* A storage fault may be raised by any statement (at most MaxFaults times)
Faults == IF nfaults < MaxFaults THEN {FALSE, TRUE} ELSE {FALSE}

----------------------------------------------------------------------------
(* The server threads *)

Idle == [pc |-> "idle"]

Message(t) == call[t].message
Arguments(t) == call[t].message.params.arguments

\* Parameters of the tool functions: TOOL_FUNCTIONS[name](**arguments)
\* raises TypeError when a required one is missing or a name is unknown.
Signature ==
    [get_customer |-> [required |-> {"customer_id"}, optional |-> {}],
     list_customers |-> [required |-> {}, optional |-> {"status", "limit"}],
     update_customer |-> [required |-> {"customer_id", "data"}, optional |-> {}],
     create_ticket |-> [required |-> {"customer_id", "issue"},
                        optional |-> {"priority"}],
     get_customer_history |-> [required |-> {"customer_id"}, optional |-> {}]]

TOOL_FUNCTIONS == DOMAIN Signature

Binds(name, arguments) ==
    /\ Signature[name].required \subseteq DOMAIN arguments
    /\ DOMAIN arguments \subseteq
          Signature[name].required \cup Signature[name].optional

\* Thread t has received a tools/call that dispatches to tool `name`
Dispatched(t, name) ==
    /\ call[t].pc = "received"
    /\ Message(t).method = "tools/call"
    /\ Message(t).params.name = name
    /\ Binds(name, Arguments(t))

\* handle_tools_call's answer for a tool that returned `result`
ToolResponse(m, result) ==
    [jsonrpc |-> "2.0", id |-> m.id,
     result |-> [content |-> <<[type |-> "text",
                                text |-> json_dumps(result)]>>]]

\* (mutant) the error envelope without the id of the request
ErrorResponse_id_zero(m, code, msg) ==
    [jsonrpc |-> "2.0", id |-> 0, error |-> [code |-> code, message |-> msg]]

ErrorResponse(m, code, msg) ==
    [jsonrpc |-> "2.0", id |-> m.id, error |-> [code |-> code, message |-> msg]]

Returns(t, result) ==
    call' = [call EXCEPT ![t] =
               [pc |-> "done", message |-> Message(t),
                response |-> ToolResponse(Message(t), result)]]

Goes(t, pc, ticket_id) ==
    call' = [call EXCEPT ![t] =
               [pc |-> pc, message |-> Message(t), ticket_id |-> ticket_id]]

Raised(fault) == nfaults' = IF fault THEN nfaults + 1 ELSE nfaults

----------------------------------------------------------------------------
(* The five tools *)

DefaultLimit == 10

\* (mutant) get_customer lets a storage fault out to handle_tools_call
get_customer_fault_escapes(t) ==
    /\ Dispatched(t, "get_customer")
    /\ \E fault \in Faults :
          LET customer_id == Arguments(t).customer_id
              row == SelectCustomer(customer_id)
          IN  /\ call' = [call EXCEPT ![t] =
                    [pc |-> "done", message |-> Message(t),
                     response |->
                        IF fault
                        THEN [jsonrpc |-> "2.0", id |-> Message(t).id,
                              error |-> [code |-> -32603,
                                         message |-> "Tool execution error"]]
                        ELSE ToolResponse(Message(t),
                                IF row # <<>>
                                THEN [success |-> TRUE, customer |-> row[1]]
                                ELSE Failure(NotFound, customer_id))]]
              /\ Raised(fault)
    /\ UNCHANGED <<customers, tickets, now, ncalls, session>>

get_customer(t) ==
    /\ Dispatched(t, "get_customer")
    /\ \E fault \in Faults :
          LET customer_id == Arguments(t).customer_id
              row == SelectCustomer(customer_id)
          IN  /\ Returns(t, IF fault THEN Failure(DatabaseError, 0)
                            ELSE IF row # <<>>
                                 THEN [success |-> TRUE, customer |-> row[1]]
                            ELSE Failure(NotFound, customer_id))
              /\ Raised(fault)
    /\ UNCHANGED <<customers, tickets, now, ncalls, session>>

list_customers(t) ==
    /\ Dispatched(t, "list_customers")
    /\ \E fault \in Faults :
          LET status == Arg(Arguments(t), "status", None)
              limit == Arg(Arguments(t), "limit", DefaultLimit)
              rows == SelectCustomers(IF Truthy(status) THEN status ELSE None,
                                      limit)
          IN  /\ Returns(t, IF fault THEN Failure(DatabaseError, 0)
                            ELSE IF Truthy(status) /\ status \notin CustomerStatuses
                                 THEN Failure(BadStatus, 0)
                            ELSE [success |-> TRUE, count |-> Len(rows),
                                  customers |-> rows])
              /\ Raised(fault)
    /\ UNCHANGED <<customers, tickets, now, ncalls, session>>

\* the "key = ?" assignments update_customer collects from data
Updates(data) ==
    [k \in {f \in DOMAIN data : f \in allowed_fields /\ data[f] # None}
       |-> data[k]]

\* (mutant) update_customer without the existence check
update_customer_unchecked(t) ==
    /\ Dispatched(t, "update_customer")
    /\ LET updates == Updates(Arguments(t).data)
       IN  IF DOMAIN updates = {}
           THEN Returns(t, Failure(NoValidFields, 0)) /\ UNCHANGED nfaults
           ELSE \E fault \in Faults :
                   /\ IF fault THEN Returns(t, Failure(DatabaseError, 0))
                      ELSE Goes(t, "execute", 0)
                   /\ Raised(fault)
    /\ UNCHANGED <<customers, tickets, now, ncalls, session>>

\* update_customer up to the existence check
update_customer(t) ==
    /\ Dispatched(t, "update_customer")
    /\ LET customer_id == Arguments(t).customer_id
           updates == Updates(Arguments(t).data)
       IN  IF DOMAIN updates = {}
           THEN Returns(t, Failure(NoValidFields, 0)) /\ UNCHANGED nfaults
           ELSE \E fault \in Faults :
                   /\ IF fault THEN Returns(t, Failure(DatabaseError, 0))
                      ELSE IF SelectCustomer(customer_id) = <<>>
                           THEN Returns(t, Failure(NotFound, customer_id))
                      ELSE Goes(t, "execute", 0)
                   /\ Raised(fault)
    /\ UNCHANGED <<customers, tickets, now, ncalls, session>>

\* cur.execute(UPDATE ...); conn.commit()
update_customer_execute(t) ==
    /\ call[t].pc = "execute"
    /\ Message(t).params.name = "update_customer"
    /\ \E fault \in Faults :
          LET customer_id == Arguments(t).customer_id
              updates == Updates(Arguments(t).data)
          IN  /\ IF fault
                 THEN Returns(t, Failure(DatabaseError, 0)) /\ UNCHANGED customers
                 ELSE /\ customers' =
                            [c \in DOMAIN customers |->
                               IF c = customer_id
                               THEN UpdateCustomerRow(customers[c], updates)
                               ELSE customers[c]]
                      /\ Goes(t, "readback", 0)
              /\ Raised(fault)
    /\ UNCHANGED <<tickets, now, ncalls, session>>

\* the SELECT of the updated row and the return
update_customer_readback(t) ==
    /\ call[t].pc = "readback"
    /\ Message(t).params.name = "update_customer"
    /\ \E fault \in Faults :
          LET customer_id == Arguments(t).customer_id
              row == SelectCustomer(customer_id)
          IN  /\ Returns(t, IF fault THEN Failure(DatabaseError, 0)
                            ELSE [success |-> TRUE,
                                  message |-> "Customer updated successfully",
                                  customer |-> row[1]])
              /\ Raised(fault)
    /\ UNCHANGED <<customers, tickets, now, ncalls, session>>

\* (mutant) create_ticket without the existence check
create_ticket_unchecked(t) ==
    /\ Dispatched(t, "create_ticket")
    /\ LET priority == Arg(Arguments(t), "priority", "medium")
       IN  IF priority \notin TicketPriorities
           THEN Returns(t, Failure(BadPriority, 0)) /\ UNCHANGED nfaults
           ELSE \E fault \in Faults :
                   /\ IF fault THEN Returns(t, Failure(DatabaseError, 0))
                      ELSE Goes(t, "execute", 0)
                   /\ Raised(fault)
    /\ UNCHANGED <<customers, tickets, now, ncalls, session>>

\* create_ticket up to the existence check
create_ticket(t) ==
    /\ Dispatched(t, "create_ticket")
    /\ LET customer_id == Arguments(t).customer_id
           priority == Arg(Arguments(t), "priority", "medium")
       IN  IF priority \notin TicketPriorities
           THEN Returns(t, Failure(BadPriority, 0)) /\ UNCHANGED nfaults
           ELSE \E fault \in Faults :
                   /\ IF fault THEN Returns(t, Failure(DatabaseError, 0))
                      ELSE IF SelectCustomer(customer_id) = <<>>
                           THEN Returns(t, Failure(NotFound, customer_id))
                      ELSE Goes(t, "execute", 0)
                   /\ Raised(fault)
    /\ UNCHANGED <<customers, tickets, now, ncalls, session>>

\* cur.execute(INSERT ...); ticket_id = cur.lastrowid; conn.commit()
create_ticket_execute(t) ==
    /\ call[t].pc = "execute"
    /\ Message(t).params.name = "create_ticket"
    /\ \E fault \in Faults :
          LET a == Arguments(t)
              row == InsertTicketRow(a.customer_id, a.issue,
                                     Arg(a, "priority", "medium"))
          IN  /\ IF fault
                 THEN Returns(t, Failure(DatabaseError, 0)) /\ UNCHANGED tickets
                 ELSE /\ tickets' = Append(tickets, row)
                      /\ Goes(t, "readback", row.id)
              /\ Raised(fault)
    /\ UNCHANGED <<customers, now, ncalls, session>>

\* (mutant) the read back takes the newest row of the table
create_ticket_readback_newest(t) ==
    /\ call[t].pc = "readback"
    /\ Message(t).params.name = "create_ticket"
    /\ \E fault \in Faults :
          LET row == SelectTicket(NextRowId - 1)
          IN  /\ Returns(t, IF fault THEN Failure(DatabaseError, 0)
                            ELSE [success |-> TRUE, ticket |-> row[1]])
              /\ Raised(fault)
    /\ UNCHANGED <<customers, tickets, now, ncalls, session>>

\* the SELECT of the new row by ticket_id and the return
create_ticket_readback(t) ==
    /\ call[t].pc = "readback"
    /\ Message(t).params.name = "create_ticket"
    /\ \E fault \in Faults :
          LET row == SelectTicket(call[t].ticket_id)
          IN  /\ Returns(t, IF fault THEN Failure(DatabaseError, 0)
                            ELSE [success |-> TRUE, ticket |-> row[1]])
              /\ Raised(fault)
    /\ UNCHANGED <<customers, tickets, now, ncalls, session>>

\* (mutant) get_customer_history with an existence check
get_customer_history_checked(t) ==
    /\ Dispatched(t, "get_customer_history")
    /\ \E fault \in Faults :
          \E rows \in SelectHistory(Arguments(t).customer_id) :
              /\ Returns(t, IF fault THEN Failure(DatabaseError, 0)
                            ELSE IF SelectCustomer(Arguments(t).customer_id) = <<>>
                                 THEN Failure(NotFound, Arguments(t).customer_id)
                            ELSE [success |-> TRUE, count |-> Len(rows),
                                  tickets |-> rows])
              /\ Raised(fault)
    /\ UNCHANGED <<customers, tickets, now, ncalls, session>>

get_customer_history(t) ==
    /\ Dispatched(t, "get_customer_history")
    /\ \E fault \in Faults :
          \E rows \in SelectHistory(Arguments(t).customer_id) :
              /\ Returns(t, IF fault THEN Failure(DatabaseError, 0)
                            ELSE [success |-> TRUE, count |-> Len(rows),
                                  tickets |-> rows])
              /\ Raised(fault)
    /\ UNCHANGED <<customers, tickets, now, ncalls, session>>

----------------------------------------------------------------------------
(* JSON-RPC handlers *)

\* the tool catalogue: name and required arguments of each entry
MCP_TOOLS ==
    <<[name |-> "get_customer", required |-> {"customer_id"}],
      [name |-> "list_customers", required |-> {}],
      [name |-> "update_customer", required |-> {"customer_id", "data"}],
      [name |-> "create_ticket", required |-> {"customer_id", "issue"}],
      [name |-> "get_customer_history", required |-> {"customer_id"}]>>

Answers(t, response) ==
    call' = [call EXCEPT ![t] =
               [pc |-> "done", message |-> Message(t), response |-> response]]

handle_initialize(t) ==
    /\ call[t].pc = "received"
    /\ Message(t).method = "initialize"
    /\ Answers(t, [jsonrpc |-> "2.0", id |-> Message(t).id,
                   result |-> [protocolVersion |-> "2024-11-05",
                               serverInfo |-> "customer-support-mcp-server"]])
    /\ UNCHANGED <<customers, tickets, now, ncalls, nfaults, session>>

handle_tools_list(t) ==
    /\ call[t].pc = "received"
    /\ Message(t).method = "tools/list"
    /\ Answers(t, [jsonrpc |-> "2.0", id |-> Message(t).id,
                   result |-> [tools |-> MCP_TOOLS]])
    /\ UNCHANGED <<customers, tickets, now, ncalls, nfaults, session>>

\* (mutant) an unknown tool name answered inline, as a tool payload
handle_tools_call_not_found_inline(t) ==
    /\ call[t].pc = "received"
    /\ Message(t).method = "tools/call"
    /\ Message(t).params.name \notin TOOL_FUNCTIONS
    /\ call' = [call EXCEPT ![t] =
                  [pc |-> "done", message |-> Message(t),
                   response |->
                      [jsonrpc |-> "2.0", id |-> Message(t).id,
                       result |-> [content |->
                          <<[type |-> "text",
                             text |-> json_dumps(Failure("Tool not found", 0))]>>]]]]
    /\ UNCHANGED <<customers, tickets, now, ncalls, nfaults, session>>

\* handle_tools_call: name not in TOOL_FUNCTIONS
handle_tools_call_not_found(t) ==
    /\ call[t].pc = "received"
    /\ Message(t).method = "tools/call"
    /\ Message(t).params.name \notin TOOL_FUNCTIONS
    /\ Answers(t, ErrorResponse(Message(t), -32601, "Tool not found"))
    /\ UNCHANGED <<customers, tickets, now, ncalls, nfaults, session>>

\* handle_tools_call: the call of the tool function raised (TypeError)
handle_tools_call_error(t) ==
    /\ call[t].pc = "received"
    /\ Message(t).method = "tools/call"
    /\ Message(t).params.name \in TOOL_FUNCTIONS
    /\ ~Binds(Message(t).params.name, Arguments(t))
    /\ Answers(t, ErrorResponse(Message(t), -32603, "Tool execution error"))
    /\ UNCHANGED <<customers, tickets, now, ncalls, nfaults, session>>

\* process_mcp_message: no handler for the method
process_mcp_message_not_found(t) ==
    /\ call[t].pc = "received"
    /\ Message(t).method \notin {"initialize", "tools/list", "tools/call"}
    /\ Answers(t, ErrorResponse(Message(t), -32601, "Method not found"))
    /\ UNCHANGED <<customers, tickets, now, ncalls, nfaults, session>>

\* mcp_endpoint: request.get_json() of a posted message
Receive(t, message) ==
    /\ ncalls < MaxCalls
    /\ ncalls' = ncalls + 1
    /\ call' = [call EXCEPT ![t] = [pc |-> "received", message |-> message]]

\* a client other than the agents posts a message
mcp_endpoint(t, message) ==
    /\ call[t].pc = "idle"
    /\ Receive(t, message)
    /\ UNCHANGED <<customers, tickets, now, nfaults, session>>

\* mcp_endpoint: the body generate() yields, the response as one SSE event
ResponseBody(t) == create_sse_message(call[t].response)

\* mcp_endpoint: the response has gone to the client, the thread is free
mcp_endpoint_yield(t) ==
    /\ call[t].pc = "done"
    /\ call' = [call EXCEPT ![t] = Idle]
    /\ UNCHANGED <<customers, tickets, now, ncalls, nfaults, session>>

\* CURRENT_TIMESTAMP advances
Tick ==
    /\ now < MaxTime
    /\ now' = now + 1
    /\ UNCHANGED <<customers, tickets, call, ncalls, nfaults, session>>

----------------------------------------------------------------------------
(* Requests of the clients of the server *)

MessageId(t) == IF t = "t1" THEN 1 ELSE 2

StatusInputs == {"active", "disabled", "bogus", ""}
Limits == 0..NumCustomers
PriorityInputs == {"low", "high", "urgent"}

UpdateDatas ==
    {[email |-> "new@x.com"], [name |-> "Bob"], [phone |-> "777"],
     [status |-> "disabled"], [status |-> "active"], [status |-> "vip"],
     [email |-> "new@x.com", status |-> "disabled"],
     [email |-> None], [plan |-> "gold"], <<>>}

ToolCalls ==
    {[name |-> "get_customer", arguments |-> [customer_id |-> c]] : c \in ReqIds}
    \cup {[name |-> "list_customers", arguments |-> [limit |-> l]] : l \in Limits}
    \cup {[name |-> "list_customers", arguments |-> [status |-> st, limit |-> l]] :
             st \in StatusInputs, l \in Limits}
    \cup {[name |-> "list_customers", arguments |-> <<>>]}
    \cup {[name |-> "update_customer",
           arguments |-> [customer_id |-> c, data |-> d]] :
             c \in ReqIds, d \in UpdateDatas}
    \cup {[name |-> "create_ticket",
           arguments |-> [customer_id |-> c, issue |-> "refund"]] : c \in ReqIds}
    \cup {[name |-> "create_ticket",
           arguments |-> [customer_id |-> c, issue |-> "refund", priority |-> p]] :
             c \in ReqIds, p \in PriorityInputs}
    \cup {[name |-> "get_customer_history", arguments |-> [customer_id |-> c]] :
             c \in ReqIds}
    \cup {[name |-> "delete_customer", arguments |-> [customer_id |-> 1]],
          [name |-> "get_customer", arguments |-> <<>>]}

Messages(t) ==
    {[jsonrpc |-> "2.0", id |-> MessageId(t), method |-> "tools/call",
      params |-> p] : p \in ToolCalls}
    \cup {[jsonrpc |-> "2.0", id |-> MessageId(t), method |-> m] :
             m \in {"initialize", "tools/list", "resources/list"}}

----------------------------------------------------------------------------
(* The server under concurrent clients *)

NoSession == [pc |-> "idle"]

SeedCustomers ==
    [c \in CustIds |->
        SeedCustomer(c, IF c % 2 = 1 THEN "active" ELSE "disabled")]

SeedTickets == <<SeedTicket(1, 1, "open"), SeedTicket(2, 1, "closed")>>

Init ==
    /\ customers = SeedCustomers
    /\ tickets = SeedTickets
    /\ now = 0
    /\ call = [t \in Threads |-> Idle]
    /\ ncalls = 0
    /\ nfaults = 0
    /\ session = NoSession

Server(t) ==
    \/ handle_initialize(t)
    \/ handle_tools_list(t)
    \/ handle_tools_call_not_found(t)
    \/ handle_tools_call_error(t)
    \/ process_mcp_message_not_found(t)
    \/ get_customer(t)
    \/ list_customers(t)
    \/ update_customer(t)
    \/ update_customer_execute(t)
    \/ update_customer_readback(t)
    \/ create_ticket(t)
    \/ create_ticket_execute(t)
    \/ create_ticket_readback(t)
    \/ get_customer_history(t)
    \/ mcp_endpoint_yield(t)

Next ==
    \/ \E t \in Threads : \E m \in Messages(t) : mcp_endpoint(t, m)
    \/ \E t \in Threads : Server(t)
    \/ Tick

Spec == Init /\ [][Next]_vars

----------------------------------------------------------------------------
(* The server under clients that file tickets and read histories *)

MaxTicketCalls == 3      \* requests the server accepts in one such behaviour

TicketMessages(t) ==
    {[jsonrpc |-> "2.0", id |-> MessageId(t), method |-> "tools/call",
      params |-> p] : p \in
        {[name |-> "create_ticket",
          arguments |-> [customer_id |-> c, issue |-> "refund"]] : c \in CustIds}
        \cup {[name |-> "get_customer_history",
               arguments |-> [customer_id |-> c]] : c \in ReqIds}}

\* mcp_endpoint: request.get_json() of one of these messages
mcp_endpoint_tickets(t, message) ==
    /\ call[t].pc = "idle"
    /\ ncalls < MaxTicketCalls
    /\ ncalls' = ncalls + 1
    /\ call' = [call EXCEPT ![t] = [pc |-> "received", message |-> message]]
    /\ UNCHANGED <<customers, tickets, now, nfaults, session>>

NextTickets ==
    \/ \E t \in Threads : \E m \in TicketMessages(t) : mcp_endpoint_tickets(t, m)
    \/ \E t \in Threads : create_ticket(t)
    \/ \E t \in Threads : create_ticket_execute(t)
    \/ \E t \in Threads : create_ticket_readback(t)
    \/ \E t \in Threads : get_customer_history(t)
    \/ \E t \in Threads : mcp_endpoint_yield(t)
    \/ Tick

SpecTickets == Init /\ [][NextTickets]_vars

----------------------------------------------------------------------------
(* agents.py: RouterAgent, SupportAgent, CustomerDataAgent.                  *)
(*                                                                           *)
(* A query is the text as typed: the trigger phrases it holds, the digits    *)
(* that follow "id" or "customer" (if any) and the email-shaped token (if    *)
(* any).  Optional values are sequences of length 0 or 1.                    *)

MaxPhrases == 3          \* trigger phrases in one query

AgentThread == "t1"      \* the server thread that serves the agents' calls

TypedPhrases ==
    {"Get customer information", "help with my account", "cancel", "billing",
     "active customers", "open tickets", "upgrading my account",
     "charged twice", "double charged", "Update my email", "ticket history"}

\* str.lower() of a typed phrase
lower(phrase) ==
    CASE phrase = "Get customer information" -> "get customer information"
      [] phrase = "Update my email" -> "update my email"
      [] OTHER -> phrase

QueryIds == {<<>>, <<0>>, <<1>>, <<NumCustomers + 1>>}
QueryEmails == {<<>>, <<"new@email.com">>}

Queries ==
    {[phrases |-> ps, id |-> i, email |-> e] :
        ps \in {x \in SUBSET TypedPhrases : Cardinality(x) <= MaxPhrases},
        i \in QueryIds, e \in QueryEmails}

\* text = query.lower(): the phrases a test "phrase in text" finds
Text(query) == {lower(p) : p \in query.phrases}

_extract_customer_id(query) == query.id

_extract_email(query) == query.email

\* Python's "x or default" for an optional integer / string
OrInt(x, default) == IF x = <<>> \/ x[1] = 0 THEN default ELSE x[1]
OrStr(x, default) == IF x = <<>> \/ x[1] = "" THEN default ELSE x[1]

\* (mutant) the billing + cancellation test moved before the account help test
Route_billing_first(query) ==
    LET text == Text(query)
        cid == _extract_customer_id(query)
    IN  IF "get customer information" \in text /\ cid # <<>>
        THEN "direct_lookup"
        ELSE IF "cancel" \in text /\ "billing" \in text
        THEN "billing_cancel"
        ELSE IF "help with my account" \in text /\ cid # <<>>
        THEN "account_help"
        ELSE IF "active customers" \in text /\ "open tickets" \in text
        THEN "ticket_report"
        ELSE IF "upgrading my account" \in text /\ cid # <<>>
        THEN "upgrade"
        ELSE IF "charged twice" \in text \/ "double charged" \in text
        THEN "escalation"
        ELSE IF "update my email" \in text /\ "ticket history" \in text
        THEN "update_history"
        ELSE "fallback"

\* handle_query: the chain of tests, in the order of the code
Route(query) ==
    LET text == Text(query)
        cid == _extract_customer_id(query)
    IN  IF "get customer information" \in text /\ cid # <<>>
        THEN "direct_lookup"
        ELSE IF "help with my account" \in text /\ cid # <<>>
        THEN "account_help"
        ELSE IF "cancel" \in text /\ "billing" \in text
        THEN "billing_cancel"
        ELSE IF "active customers" \in text /\ "open tickets" \in text
        THEN "ticket_report"
        ELSE IF "upgrading my account" \in text /\ cid # <<>>
        THEN "upgrade"
        ELSE IF "charged twice" \in text \/ "double charged" \in text
        THEN "escalation"
        ELSE IF "update my email" \in text /\ "ticket history" \in text
        THEN "update_history"
        ELSE "fallback"

\* the payload mcp_call_tool posts
ToolRequest(name, arguments, message_id) ==
    [jsonrpc |-> "2.0", id |-> message_id, method |-> "tools/call",
     params |-> [name |-> name, arguments |-> arguments]]

\* the requests of CustomerDataAgent's methods
DataAgent_get_customer(customer_id) ==
    ToolRequest("get_customer", [customer_id |-> customer_id], 101)

DataAgent_list_customers(status, limit) ==
    ToolRequest("list_customers",
                IF status = None THEN [limit |-> limit]
                ELSE [limit |-> limit, status |-> status], 102)

DataAgent_update_customer(customer_id, data) ==
    ToolRequest("update_customer", [customer_id |-> customer_id, data |-> data],
                103)

DataAgent_create_ticket(customer_id, issue, priority) ==
    ToolRequest("create_ticket",
                [customer_id |-> customer_id, issue |-> issue,
                 priority |-> priority], 104)

DataAgent_get_customer_history(customer_id) ==
    ToolRequest("get_customer_history", [customer_id |-> customer_id], 105)

Entry(agent, action) == [agent |-> agent, action |-> action]

\* (mutant) the trace is an attribute of the agent, kept from call to call
Fresh_keeps_trace(query) ==
    [pc |-> "running", query |-> query, rule |-> Route(query),
     logs |-> IF session.pc = "returned"
              THEN Append(session.logs,
                          Entry("RouterAgent", "Received user query"))
              ELSE <<Entry("RouterAgent", "Received user query")>>,
     answer |-> <<>>, at |-> "", cid |-> 0, email |-> "",
     base |-> <<>>, i |-> 0, results |-> <<>>, composite |-> <<>>,
     error |-> "", sent |-> 0]

\* the session when handle_query starts on a query
\* (sent: the requests this call has posted so far)
Fresh(query) ==
    [pc |-> "running", query |-> query, rule |-> Route(query),
     logs |-> <<Entry("RouterAgent", "Received user query")>>,
     answer |-> <<>>, at |-> "", cid |-> 0, email |-> "",
     base |-> <<>>, i |-> 0, results |-> <<>>, composite |-> <<>>,
     error |-> "", sent |-> 0]

\* (mutant) the entry is put in front of the trace
Log_prepend(s, agent, action) ==
    [s EXCEPT !.logs = <<Entry(agent, action)>> \o @]

Log(s, agent, action) == [s EXCEPT !.logs = Append(@, Entry(agent, action))]

\* what a stretch of the agents' code ends with: a tool call (the session
\* waits for the answer at `at`) or the RouterResult
Calls(s, at, request) ==
    [session |-> [s EXCEPT !.pc = "awaiting", !.at = at, !.sent = @ + 1],
     request |-> <<request>>]

Returns_(s, answer) ==
    [session |-> [s EXCEPT !.pc = "returned", !.answer = answer],
     request |-> <<>>]

\* handle_query from its start to the first tool call or to its return
Dispatch(query) ==
    LET s0 == Fresh(query)
        rule == s0.rule
        id == _extract_customer_id(query)
    IN  CASE rule = "direct_lookup" ->
               Calls([Log(s0, "RouterAgent", "Detected simple query")
                        EXCEPT !.cid = id[1]],
                     "direct", DataAgent_get_customer(id[1]))
          [] rule = "account_help" ->
               Calls([Log(Log(s0, "RouterAgent", "Scenario 1 detected"),
                          "SupportAgent", "Requesting customer info")
                        EXCEPT !.cid = id[1]],
                     "account_help", DataAgent_get_customer(id[1]))
          [] rule = "billing_cancel" ->
               Returns_(Log(Log(s0, "RouterAgent", "Scenario 2 detected"),
                            "SupportAgent", "Handling billing + cancellation"),
                        [text |-> "billing before cancellation"])
          [] rule = "ticket_report" ->
               Calls(Log(Log(s0, "RouterAgent", "Scenario 3 detected"),
                         "SupportAgent",
                         "Requesting active customers with open tickets"),
                     "list", DataAgent_list_customers("active", 100))
          [] rule = "upgrade" ->
               Calls([Log(Log(s0, "RouterAgent", "Coordinated upgrade scenario"),
                          "SupportAgent", "Fetching customer info")
                        EXCEPT !.cid = id[1]],
                     "upgrade", DataAgent_get_customer(id[1]))
          [] rule = "escalation" ->
               LET cid == OrInt(id, 1)
               IN  Calls([Log(Log(s0, "RouterAgent", "Escalation detected"),
                              "SupportAgent", "Creating high-priority ticket")
                            EXCEPT !.cid = cid],
                         "escalation",
                         DataAgent_create_ticket(
                            cid, "Double charge / urgent refund", "high"))
          [] rule = "update_history" ->
               LET cid == OrInt(id, 1)
                   email == OrStr(_extract_email(query), "new@example.com")
               IN  Calls([Log(Log(s0, "RouterAgent", "Multi-intent flow detected"),
                              "SupportAgent", "Updating email, then history")
                            EXCEPT !.cid = cid, !.email = email],
                         "update",
                         DataAgent_update_customer(cid, [email |-> email]))
          [] OTHER ->
               Returns_(Log(s0, "RouterAgent", "No recognized pattern"),
                        [text |-> "fallback reply"])

IsOpen(ticket) == ticket.status = "open"

\* handle_ticket_report once get_active_customers_with_open_tickets returned
Report(s, composite) ==
    Returns_([s EXCEPT !.composite = composite],
             IF ~composite.success
             THEN [text |-> "Unable to generate ticket report",
                   error |-> composite.error]
             ELSE IF composite.count = 0
             THEN [text |-> "All active customers have no open tickets"]
             ELSE [text |-> "Active customers with open tickets",
                   items |-> composite.items])

\* the agents' code from the return of a tool call, with `result`, to the
\* next tool call or to the RouterResult
Resume(s, result) ==
    CASE s.at = "direct" ->
           Returns_(s, IF ~result.success
                       THEN [text |-> "Unable to retrieve customer",
                             customer_id |-> s.cid, error |-> result.error]
                       ELSE [text |-> "Customer information",
                             customer_id |-> s.cid,
                             name |-> result.customer.name,
                             email |-> result.customer.email,
                             phone |-> result.customer.phone,
                             status |-> result.customer.status])
      [] s.at = "account_help" ->
           Returns_(s, IF ~result.success
                       THEN [text |-> "Unable to fetch account info",
                             customer_id |-> s.cid, error |-> result.error]
                       ELSE [text |-> "I found your account",
                             name |-> result.customer.name,
                             id |-> result.customer.id,
                             status |-> result.customer.status])
      [] s.at = "upgrade" ->
           Returns_(s, IF ~result.success
                       THEN [text |-> "Unable to fetch account info",
                             customer_id |-> s.cid, error |-> result.error]
                       ELSE [text |-> "Hello, I can help you upgrade",
                             name |-> result.customer.name,
                             status |-> result.customer.status])
      [] s.at = "escalation" ->
           IF ~result.success
           THEN Returns_(s, [text |-> "Failed to create escalation ticket",
                             error |-> result.error])
           ELSE Returns_(Log(s, "SupportAgent", "High-priority ticket created"),
                         [text |-> "A high-priority refund ticket was submitted",
                          ticket_id |-> result.ticket.id])
      [] s.at = "update" ->
           IF ~result.success
           THEN Returns_(s, [text |-> "Failed to update email",
                             error |-> result.error])
           ELSE Calls(s, "history", DataAgent_get_customer_history(s.cid))
      [] s.at = "history" ->
           Returns_(s, IF ~result.success
                       THEN [text |-> "Email updated, but history failed",
                             email |-> s.email]
                       ELSE [text |-> "Email updated, ticket history",
                             email |-> s.email, tickets |-> result.tickets])
      \* get_active_customers_with_open_tickets: after list_customers
      [] s.at = "list" ->
           IF ~result.success THEN Report(s, result)
           ELSE IF result.customers = <<>>
           THEN Report(s, [success |-> TRUE, count |-> 0, items |-> <<>>])
           ELSE Calls([s EXCEPT !.base = result, !.i = 1],
                      "hist",
                      DataAgent_get_customer_history(result.customers[1].id))
      \* ... and after the get_customer_history of customer number s.i
      [] s.at = "hist" ->
           LET cust == s.base.customers[s.i]
               open_tickets == IF result.success
                               THEN SelectSeq(result.tickets, IsOpen) ELSE <<>>
               results == IF open_tickets # <<>>
                          THEN Append(s.results, [customer |-> cust,
                                                  open_tickets |-> open_tickets])
                          ELSE s.results
               s1 == [s EXCEPT !.results = results]
           IN  IF s.i < Len(s.base.customers)
               THEN Calls([s1 EXCEPT !.i = s.i + 1], "hist",
                          DataAgent_get_customer_history(
                             s.base.customers[s.i + 1].id))
               ELSE Report(s1, [success |-> TRUE, count |-> Len(results),
                                items |-> results])

\* the session goes on: it posts the request of a tool call, or has returned
Continue(next) ==
    /\ session' = next.session
    /\ IF next.request = <<>>
       THEN call' = [call EXCEPT ![AgentThread] = Idle] /\ UNCHANGED ncalls
       ELSE Receive(AgentThread, next.request[1])

\* RouterAgent.handle_query(query), to its first tool call or its return
handle_query(query) ==
    /\ session.pc \in {"idle", "returned"}
    /\ call[AgentThread].pc = "idle"
    /\ Continue(Dispatch(query))
    /\ UNCHANGED <<customers, tickets, now, nfaults>>

\* mcp_call_tool from resp = requests.post(...) on: the server's answer
\* arrives, resp.json() reads the body as JSON, and the agents run on.
\* resp.json() raises when the body is not a JSON text; nothing in agents.py
\* or run_demo.py catches it.
mcp_call_tool(t) ==
    /\ session.pc = "awaiting"
    /\ t = AgentThread
    /\ call[t].pc = "done"
    /\ LET body == ResponseBody(t)
       IN  IF ~IsJsonText(body)
           THEN /\ session' = [session EXCEPT !.pc = "raised",
                                              !.error = "JSONDecodeError"]
                /\ call' = [call EXCEPT ![t] = Idle]
                /\ UNCHANGED ncalls
           ELSE LET data == json_loads(body)
                    result ==
                       IF "result" \in DOMAIN data
                       THEN json_loads(data.result.content[1].text)
                       ELSE Failure(data.error.message, 0)
                IN  Continue(Resume(session, result))
    /\ UNCHANGED <<customers, tickets, now, nfaults>>

\* mcp_call_tool: requests.post raises (the connection fails) or
\* resp.raise_for_status() raises (the server answered with an HTTP error
\* status); the request is not served.  Nothing catches either exception.
TransportErrors == {"ConnectionError", "HTTPError"}

mcp_call_tool_transport(t) ==
    /\ session.pc = "awaiting"
    /\ t = AgentThread
    /\ call[t].pc = "received"
    /\ \E e \in TransportErrors :
          session' = [session EXCEPT !.pc = "raised", !.error = e]
    /\ call' = [call EXCEPT ![t] = Idle]
    /\ UNCHANGED <<customers, tickets, now, ncalls, nfaults>>

\* One RouterAgent over the server, as run_demo.py runs it
NextAgents ==
    \/ \E query \in Queries : handle_query(query)
    \/ mcp_call_tool_transport(AgentThread)
    \/ get_customer(AgentThread)
    \/ list_customers(AgentThread)
    \/ update_customer(AgentThread)
    \/ update_customer_execute(AgentThread)
    \/ update_customer_readback(AgentThread)
    \/ create_ticket(AgentThread)
    \/ create_ticket_execute(AgentThread)
    \/ create_ticket_readback(AgentThread)
    \/ mcp_call_tool(AgentThread)
    \/ Tick

SpecAgents == Init /\ [][NextAgents]_vars

----------------------------------------------------------------------------
(* Properties of the tools *)

\* thread t holds the answer of tool `name`
Returned(t, name) ==
    /\ call[t].pc = "done"
    /\ Message(t).method = "tools/call"
    /\ Message(t).params.name = name
    /\ "result" \in DOMAIN call[t].response

\* the tool payload in that answer
Payload(t) == json_loads(call[t].response.result.content[1].text)

\* C2: every ticket's customer_id is the id of an existing customer, in
\* every state and under every interleaving; create_ticket for an unknown
\* customer id returns a failure payload and never gets to its INSERT.
C2_TicketCustomerExists ==
    /\ \A i \in DOMAIN tickets : tickets[i].customer_id \in DOMAIN customers
    /\ \A t \in Threads :
          /\ call[t].pc \in {"execute", "readback", "done"}
          /\ Message(t).method = "tools/call"
          /\ Message(t).params.name = "create_ticket"
          /\ Binds("create_ticket", Arguments(t))
          /\ Arguments(t).customer_id \notin DOMAIN customers
          => /\ call[t].pc = "done"
             /\ "result" \in DOMAIN call[t].response
             /\ ~Payload(t).success

C2_Witness ==
    /\ Len(tickets) > Len(SeedTickets)
    /\ \E t \in Threads :
          /\ Returned(t, "create_ticket")
          /\ Arguments(t).customer_id \notin DOMAIN customers
          /\ Payload(t).error.msg = NotFound

\* C3: every customer's status is 'active' or 'disabled' in every state.
C3_StatusEnumerated ==
    \A c \in DOMAIN customers : customers[c].status \in CustomerStatuses

\* C5: every ticket create_ticket inserts has status 'open', and so has the
\* ticket it returns.
C5_CreatedTicketsOpen ==
    /\ \A i \in DOMAIN tickets :
          i > Len(SeedTickets) => tickets[i].status = "open"
    /\ \A t \in Threads :
          Returned(t, "create_ticket") /\ Payload(t).success
          => Payload(t).ticket.status = "open"

C5_Witness ==
    \E t \in Threads :
       /\ Returned(t, "create_ticket")
       /\ Payload(t).success
       /\ Payload(t).ticket.priority = "high"
       /\ Payload(t).ticket \in Range(tickets)

\* C6: no two tickets share an id, and each successful create_ticket returns
\* the ticket it inserted: a row of the table with the call's customer_id,
\* issue and priority, and not the ticket another call returns.
C6_TicketIdsUnique ==
    /\ \A i, j \in DOMAIN tickets : tickets[i].id = tickets[j].id => i = j
    /\ \A t \in Threads :
          Returned(t, "create_ticket") /\ Payload(t).success
          => /\ Payload(t).ticket \in Range(tickets)
             /\ Payload(t).ticket.customer_id = Arguments(t).customer_id
             /\ Payload(t).ticket.issue = Arguments(t).issue
             /\ Payload(t).ticket.priority =
                   Arg(Arguments(t), "priority", "medium")
             /\ \A u \in Threads \ {t} :
                   Returned(u, "create_ticket") /\ Payload(u).success
                   => Payload(u).ticket.id # Payload(t).ticket.id

C6_Witness ==
    \A t \in Threads :
       /\ Returned(t, "create_ticket")
       /\ Payload(t).success
       /\ Payload(t).ticket.customer_id = MessageId(t)

\* thread t takes the step of tool `name` that answers a received request
Answering(t, name) ==
    /\ Dispatched(t, name)
    /\ call'[t].pc = "done"

\* C4: once update_customer(id, {f: v}) has written, a get_customer(id) with
\* no other write in between returns a customer whose f equals v: the write
\* leaves every provided field of the row at the provided value (as the
\* SELECT of get_customer reads it), and get_customer returns the row as
\* it is stored.
C4_GetAfterUpdate ==
    [][\A t \in Threads :
         /\ (/\ call[t].pc = "execute"
             /\ Message(t).params.name = "update_customer"
             /\ call'[t].pc = "readback")
            => LET data == Arguments(t).data
                   row == SelectCustomer(Arguments(t).customer_id)'
               IN  /\ row # <<>>
                   /\ \A f \in DOMAIN data \cap allowed_fields :
                         data[f] # None => row[1][f] = data[f]
         /\ (Answering(t, "get_customer") /\ nfaults' = nfaults
               /\ Arguments(t).customer_id \in DOMAIN customers)
            => /\ Payload(t)'.success
               /\ Payload(t)'.customer = customers[Arguments(t).customer_id]
      ]_vars

\* a get_customer that returns the name an update_customer wrote
C4_Witness ==
    \E t \in Threads :
       /\ Returned(t, "get_customer")
       /\ Payload(t).success
       /\ Payload(t).customer.name = "Bob"

\* C7: for limit >= 0 and status absent, 'active' or 'disabled',
\* list_customers returns at most limit customers in ascending id order,
\* the first limit customers by id that match the filter; every returned
\* customer has the status asked for, and count is their number.
C7_ListCustomers ==
    [][\A t \in Threads :
         LET status == Arg(Arguments(t), "status", None)
             limit == Arg(Arguments(t), "limit", DefaultLimit)
             r == Payload(t)'
             matching == {c \in DOMAIN customers :
                             status = None \/ customers[c].status = status}
         IN  (/\ Answering(t, "list_customers")
              /\ limit >= 0
              /\ status \in {None} \cup CustomerStatuses
              /\ nfaults' = nfaults)
             => /\ r.success
                /\ r.count = Len(r.customers)
                /\ Len(r.customers) <= limit
                /\ \A i \in DOMAIN r.customers :
                      /\ r.customers[i].id \in matching
                      /\ r.customers[i] = customers[r.customers[i].id]
                      /\ \A j \in DOMAIN r.customers :
                            i < j => r.customers[i].id < r.customers[j].id
                /\ \A c \in matching :
                      \/ \E i \in DOMAIN r.customers : r.customers[i].id = c
                      \/ /\ Len(r.customers) = limit
                         /\ \A i \in DOMAIN r.customers : r.customers[i].id < c
      ]_vars

\* a filtered listing that the limit cuts short
C7_Witness ==
    \E t \in Threads :
       /\ Returned(t, "list_customers")
       /\ Arguments(t) = [status |-> "active", limit |-> 1]
       /\ Payload(t).success
       /\ Payload(t).count = 1
       /\ \A c \in DOMAIN customers : customers[c].status = "active"

\* C8: list_customers with a status argument that is present and is not
\* 'active' or 'disabled' returns a failure payload, never a listing.
C8_BadStatusRejected ==
    \A t \in Threads :
       /\ Returned(t, "list_customers")
       /\ "status" \in DOMAIN Arguments(t)
       /\ Arguments(t).status \notin CustomerStatuses
       => ~Payload(t).success

\* C19: get_customer_history returns success with exactly the tickets of
\* the customer it is asked for (none, for a customer without tickets),
\* count being their number, newest first: of two tickets that
\* create_ticket inserted, the one inserted earlier never comes before the
\* one inserted later, also when both were inserted within one second.
C19_HistoryNewestFirst ==
    [][\A t \in Threads :
         (Answering(t, "get_customer_history") /\ nfaults' = nfaults)
         => LET r == Payload(t)'
                mine == {i \in DOMAIN tickets :
                            tickets[i].customer_id = Arguments(t).customer_id}
            IN  /\ r.success
                /\ r.count = Len(r.tickets)
                /\ Len(r.tickets) = Cardinality(mine)
                /\ Range(r.tickets) = {tickets[i] : i \in mine}
                /\ \A i, j \in DOMAIN r.tickets :
                      (/\ i < j
                       /\ r.tickets[i].id > Len(SeedTickets)
                       /\ r.tickets[j].id > Len(SeedTickets))
                      => r.tickets[i].id > r.tickets[j].id
      ]_vars

\* C20: under every interleaving of update_customer calls, a successful
\* call returns the customer as its own update left it: every field the
\* call provided has, in the returned customer, the value the call provided.
C20_UpdateReturnsOwn ==
    \A t \in Threads :
       (Returned(t, "update_customer") /\ Payload(t).success)
       => LET updates == Updates(Arguments(t).data)
          IN  \A f \in DOMAIN updates :
                 Payload(t).customer[f] = updates[f]

\* C21: update_customer with no recognized field in data, or for a customer
\* id that does not exist, and create_ticket with a priority outside low,
\* medium, high are answered, in one step, with a failure payload, and that
\* step leaves the customers (updated_at included) and the tickets as they
\* were: the call never gets to its UPDATE or INSERT.
C21_FailuresChangeNothing ==
    [][\A t \in Threads :
         LET name == Message(t).params.name
             a == Arguments(t)
         IN  (/\ call[t].pc = "received"
              /\ Message(t).method = "tools/call"
              /\ call'[t] # call[t]
              /\ \/ /\ Dispatched(t, "update_customer")
                    /\ \/ DOMAIN a.data \cap allowed_fields = {}
                       \/ a.customer_id \notin DOMAIN customers
                 \/ /\ Dispatched(t, "create_ticket")
                    /\ Arg(a, "priority", "medium") \notin TicketPriorities)
             => /\ call'[t].pc = "done"
                /\ "result" \in DOMAIN call'[t].response
                /\ ~Payload(t)'.success
                /\ customers' = customers
                /\ tickets' = tickets
      ]_vars

\* an update of an unknown customer and a ticket of priority 'urgent', both
\* refused, and the store as seeded
C21_Witness ==
    /\ Returned("t1", "update_customer")
    /\ Arguments("t1").customer_id \notin DOMAIN customers
    /\ Payload("t1").error.msg = NotFound
    /\ Returned("t2", "create_ticket")
    /\ Payload("t2").error.msg = BadPriority
    /\ customers = SeedCustomers
    /\ tickets = SeedTickets

\* C22: the UPDATE of update_customer leaves the customer's updated_at
\* strictly newer than it was, also for a customer that an update_customer
\* call has just changed.
C22_UpdatedAtNewer ==
    [][\A t \in Threads :
         LET c == Arguments(t).customer_id
         IN  (/\ call[t].pc = "execute"
              /\ Message(t).params.name = "update_customer"
              /\ call'[t].pc = "readback"
              /\ customers[c] # SeedCustomers[c])
             => customers'[c].updated_at > customers[c].updated_at
      ]_vars

----------------------------------------------------------------------------
(* Properties of the agents *)

\* the lower-cased query contains the phrase
Has(query, phrase) == \E p \in query.phrases : lower(p) = phrase

\* the triggers of the rules (a) .. (h), in the order of the specification
Trigger(k, query) ==
    CASE k = 1 -> Has(query, "get customer information") /\ query.id # <<>>
      [] k = 2 -> Has(query, "help with my account") /\ query.id # <<>>
      [] k = 3 -> Has(query, "cancel") /\ Has(query, "billing")
      [] k = 4 -> Has(query, "active customers") /\ Has(query, "open tickets")
      [] k = 5 -> Has(query, "upgrading my account") /\ query.id # <<>>
      [] k = 6 -> Has(query, "charged twice") \/ Has(query, "double charged")
      [] k = 7 -> Has(query, "update my email") /\ Has(query, "ticket history")
      [] OTHER -> TRUE

\* the trace entry and the next thing each rule does
RuleTable ==
    <<[rule |-> "direct_lookup", detected |-> "Detected simple query",
       at |-> "direct", tool |-> "get_customer"],
      [rule |-> "account_help", detected |-> "Scenario 1 detected",
       at |-> "account_help", tool |-> "get_customer"],
      [rule |-> "billing_cancel", detected |-> "Scenario 2 detected",
       at |-> "", tool |-> ""],
      [rule |-> "ticket_report", detected |-> "Scenario 3 detected",
       at |-> "list", tool |-> "list_customers"],
      [rule |-> "upgrade", detected |-> "Coordinated upgrade scenario",
       at |-> "upgrade", tool |-> "get_customer"],
      [rule |-> "escalation", detected |-> "Escalation detected",
       at |-> "escalation", tool |-> "create_ticket"],
      [rule |-> "update_history", detected |-> "Multi-intent flow detected",
       at |-> "update", tool |-> "update_customer"],
      [rule |-> "fallback", detected |-> "No recognized pattern",
       at |-> "", tool |-> ""]>>

\* the session is in the first stretch of the rule's handling
Handles(s, r) ==
    /\ s.rule = r.rule
    /\ s.logs[2] = Entry("RouterAgent", r.detected)
    /\ r.tool = "" => s.pc = "returned"
    /\ (r.tool # "" /\ s.pc = "awaiting" /\ Len(s.logs) <= 3 /\ s.at = r.at)
       => call[AgentThread].message.params.name = r.tool
    /\ (r.tool # "" /\ s.pc = "awaiting" /\ s.at # r.at)
       => r.rule \in {"ticket_report", "update_history"}

\* C1: handle_query routes every query to the earliest rule of (a) .. (h)
\* whose trigger holds for it, never to a later one.
C1_FirstMatchWins ==
    session.pc \in {"awaiting", "returned"}
    => LET first == Min({k \in 1..8 : Trigger(k, session.query)})
       IN  Handles(session, RuleTable[first])

\* "help with my account" with a customer id, "cancel" and "billing"
C1_Witness ==
    /\ session.pc = "awaiting"
    /\ session.query.phrases = {"help with my account", "cancel", "billing"}
    /\ session.query.id = <<1>>
    /\ session.at = "account_help"
    /\ call[AgentThread].pc = "received"

\* the items the composite read is to return for the store as it is
ActiveWithOpen ==
    {c \in DOMAIN customers :
        /\ customers[c].status = "active"
        /\ \E i \in DOMAIN tickets :
              tickets[i].customer_id = c /\ tickets[i].status = "open"}

\* C9: with no concurrent writer and no failing call (no storage fault, the
\* server reached and answering with success),
\* get_active_customers_with_open_tickets returns success with exactly one
\* item for each active customer that has an open ticket, in the order of
\* the listing, each with exactly that customer's open tickets, and count
\* is the number of items.
C9_CompositeResult ==
    (/\ session.pc \in {"returned", "raised"}
     /\ session.rule = "ticket_report"
     /\ nfaults = 0
     /\ session.error \notin TransportErrors)
    => /\ session.pc = "returned"
       /\ LET r == session.composite
          IN  /\ r.success
              /\ r.count = Len(r.items)
              /\ [i \in DOMAIN r.items |-> r.items[i].customer.id] =
                    SortedAsc(ActiveWithOpen)
              /\ \A i \in DOMAIN r.items :
                    /\ r.items[i].customer = customers[r.items[i].customer.id]
                    /\ Range(r.items[i].open_tickets) =
                          {tk \in Range(tickets) :
                              /\ tk.customer_id = r.items[i].customer.id
                              /\ tk.status = "open"}

\* C10: a failed history fetch only drops that customer: whenever the
\* composite read is over it has returned, and it has returned a failure
\* only if the list_customers call failed.
C10_PartialFailure ==
    (/\ session.pc \in {"returned", "raised"}
     /\ session.rule = "ticket_report")
    => /\ session.pc = "returned"
       /\ ~session.composite.success => session.base = <<>>

\* the request the session is waiting on
Request == call[AgentThread].message.params

\* handle_query is over: it returned its RouterResult or an exception left it
Over(rule) ==
    /\ session.pc \in {"returned", "raised"}
    /\ session.rule = rule

\* C11: the escalation rule asks for one ticket of priority 'high', for the
\* customer id extracted from the query when one was extracted and for
\* customer 1 only when none was; when the ticket is created the call
\* returns and the final answer holds the id the store gave the ticket.
C11_EscalationTicket ==
    /\ (session.pc = "awaiting" /\ session.rule = "escalation")
       => /\ Request.name = "create_ticket"
          /\ Request.arguments.priority = "high"
          /\ Request.arguments.customer_id =
                IF session.query.id # <<>> THEN session.query.id[1] ELSE 1
    /\ Over("escalation")
       => /\ session.pc = "returned"
          /\ \A i \in DOMAIN tickets :
                tickets[i].issue = "Double charge / urgent refund"
                => /\ "ticket_id" \in DOMAIN session.answer
                   /\ session.answer.ticket_id = tickets[i].id

\* C12: a transport failure of the call to the server (no connection, an
\* HTTP error status, a body that is not JSON) comes back from
\* mcp_call_tool as a failure payload: no exception leaves handle_query.
C12_TransportFailureReturned == session.pc # "raised"

\* C17: handle_update_email_and_history asks for update_customer first and
\* for get_customer_history only once the update has succeeded; the
\* workflow always returns an answer: the update's failure, with no email
\* changed in the store, or the email as updated (and stored, whether the
\* history came or not) with the tickets in the order the backend gave.
C17_UpdateThenHistory ==
    /\ (/\ session.pc = "awaiting"
        /\ session.rule = "update_history"
        /\ session.at = "update")
       => /\ Request.name = "update_customer"
          /\ Request.arguments.data = [email |-> session.email]
    /\ (/\ session.pc = "awaiting"
        /\ session.rule = "update_history"
        /\ session.at = "history")
       => /\ Request.name = "get_customer_history"
          /\ customers[session.cid].email = session.email
    /\ Over("update_history")
       => /\ session.pc = "returned"
          /\ session.answer.text \in
                {"Failed to update email", "Email updated, but history failed",
                 "Email updated, ticket history"}
          /\ session.answer.text = "Failed to update email"
             => \A c \in DOMAIN customers : customers[c].email # session.email
          /\ session.answer.text # "Failed to update email"
             => customers[session.cid].email = session.email

\* the entries that name the detected case
Detections == {RuleTable[k].detected : k \in DOMAIN RuleTable}

\* C18: the trace of a handle_query call starts with the query received,
\* then has exactly one RouterAgent entry naming the detected case (or 'No
\* recognized pattern'), written before the first request of the delegated
\* path, then only the SupportAgent's entries; while the call goes on the
\* trace only grows at its end.
C18_TraceAppendOnly ==
    [][/\ session'.pc # "idle"
          => LET logs == session'.logs
             IN  /\ Len(logs) >= 2
                 /\ logs[1] = Entry("RouterAgent", "Received user query")
                 /\ logs[2].agent = "RouterAgent"
                 /\ logs[2].action \in Detections
                 /\ logs[2].action = RuleTable[CHOOSE k \in DOMAIN RuleTable :
                       RuleTable[k].rule = session'.rule].detected
                 /\ \A i \in 3..Len(logs) :
                       /\ logs[i].agent = "SupportAgent"
                       /\ logs[i].action \notin Detections
       /\ session.pc = "awaiting"
          => /\ session'.query = session.query
             /\ Len(session'.logs) >= Len(session.logs)
             /\ SubSeq(session'.logs, 1, Len(session.logs)) = session.logs
      ]_vars

\* a returned trace with the SupportAgent's entry after the RouterAgent's
C18_Witness ==
    /\ session.pc = "returned"
    /\ session.rule = "billing_cancel"
    /\ Len(session.logs) = 3
    /\ session.logs[2] = Entry("RouterAgent", "Scenario 2 detected")
    /\ session.logs[3].agent = "SupportAgent"

\* the SupportAgent's entries a rule has written when it posts its first
\* request, or returns without one
FirstSteps ==
    <<<<>>,
      <<Entry("SupportAgent", "Requesting customer info")>>,
      <<Entry("SupportAgent", "Handling billing + cancellation")>>,
      <<Entry("SupportAgent", "Requesting active customers with open tickets")>>,
      <<Entry("SupportAgent", "Fetching customer info")>>,
      <<Entry("SupportAgent", "Creating high-priority ticket")>>,
      <<Entry("SupportAgent", "Updating email, then history")>>,
      <<>>>>

\* C23: what handle_query does with a query depends on the query alone,
\* not on the queries handled before it: whatever call came before, the
\* call starts from nothing (a trace holding only its own entries, no
\* results, no request counted), selects the rule its text selects, and
\* posts the first request of that rule or returns that rule's answer.
C23_Stateless ==
    [][(session.pc \in {"idle", "returned"} /\ session' # session)
       => LET q == session'.query
              k == Min({j \in 1..8 : Trigger(j, q)})
              r == RuleTable[k]
          IN  /\ q \in Queries
              /\ session'.rule = r.rule
              /\ session'.logs =
                    <<Entry("RouterAgent", "Received user query"),
                      Entry("RouterAgent", r.detected)>> \o FirstSteps[k]
              /\ session'.base = <<>>
              /\ session'.results = <<>>
              /\ session'.composite = <<>>
              /\ session'.error = ""
              /\ IF r.tool = ""
                 THEN /\ session'.pc = "returned"
                      /\ session'.sent = 0
                      /\ call'[AgentThread] = Idle
                 ELSE /\ session'.pc = "awaiting"
                      /\ session'.sent = 1
                      /\ session'.answer = <<>>
                      /\ call'[AgentThread].pc = "received"
                      /\ call'[AgentThread].message.params.name = r.tool
      ]_vars

\* a call has returned and the next query can be taken
C23_Witness ==
    /\ session.pc = "returned"
    /\ session.rule = "billing_cancel"
    /\ session.sent = 0
    /\ ENABLED handle_query([phrases |-> {"charged twice"}, id |-> <<1>>,
                             email |-> <<>>])

\* no storage fault was raised, and the server was reached and answered
Clean ==
    /\ nfaults = 0
    /\ session.error \notin TransportErrors

\* C24: the direct-lookup rule asks for get_customer of the extracted id,
\* once, by the router itself (no SupportAgent entry in the trace), and
\* returns an answer: the name, email, phone and status stored for that
\* customer when it exists, else an answer naming the id and the error.
C24_DirectLookup ==
    /\ (session.pc \in {"awaiting", "returned", "raised"}
          /\ session.rule = "direct_lookup")
       => /\ session.sent = 1
          /\ \A i \in DOMAIN session.logs :
                session.logs[i].agent = "RouterAgent"
    /\ (session.pc = "awaiting" /\ session.rule = "direct_lookup")
       => /\ Request.name = "get_customer"
          /\ Request.arguments = [customer_id |-> session.query.id[1]]
    /\ (Over("direct_lookup") /\ session.error \notin TransportErrors)
       => LET c == session.query.id[1]
              a == session.answer
          IN  /\ session.pc = "returned"
              /\ a.customer_id = c
              /\ IF a.text = "Customer information"
                 THEN /\ c \in DOMAIN customers
                      /\ a.name = customers[c].name
                      /\ a.email = customers[c].email
                      /\ a.phone = customers[c].phone
                      /\ a.status = customers[c].status
                 ELSE /\ a.text = "Unable to retrieve customer"
                      /\ "error" \in DOMAIN a
                      /\ c \notin DOMAIN customers \/ nfaults > 0

\* C25: when a call of handle_query is over, the requests it has posted
\* are as many as its rule fixes: none for billing + cancellation and
\* fallback; one for direct lookup, account help, upgrade and escalation;
\* for update + history one when the update failed and two when it did
\* not; for the ticket report the listing and one history per listed
\* customer.
C25_RequestsPerRule ==
    session.pc \in {"returned", "raised"}
    => CASE session.rule \in {"billing_cancel", "fallback"} ->
              session.sent = 0
         [] session.rule \in {"direct_lookup", "account_help", "upgrade",
                               "escalation"} ->
              session.sent = 1
         [] session.rule = "update_history" ->
              /\ session.sent \in {1, 2}
              /\ (Clean /\ session.cid \in DOMAIN customers)
                 => session.sent = 2
         [] session.rule = "ticket_report" ->
              /\ session.sent >= 1
              /\ Clean
                 => session.sent =
                       1 + Cardinality({c \in DOMAIN customers :
                                           customers[c].status = "active"})

----------------------------------------------------------------------------
(* Properties of the JSON-RPC layer *)

\* the names of the tool catalogue
Catalogue == {MCP_TOOLS[i].name : i \in DOMAIN MCP_TOOLS}

\* thread t holds a tools/call
ToolCall(t) ==
    /\ call[t].pc # "idle"
    /\ Message(t).method = "tools/call"

\* C13: a tools/call whose name is not in the catalogue is answered with
\* the error 'Tool not found' in the outer envelope, by a step that leaves
\* the store as it is; the names tools/list returns are exactly the names
\* tools/call dispatches.
C13_ToolNotFound ==
    [][/\ Catalogue = TOOL_FUNCTIONS
       /\ \A t \in Threads :
            /\ (/\ call[t].pc = "received"
                /\ ToolCall(t)
                /\ Message(t).params.name \notin Catalogue
                /\ call'[t] # call[t])
               => /\ call'[t].pc = "done"
                  /\ DOMAIN call'[t].response = {"jsonrpc", "id", "error"}
                  /\ call'[t].response.error.code = -32601
                  /\ call'[t].response.error.message = "Tool not found"
                  /\ customers' = customers
                  /\ tickets' = tickets
            /\ (/\ call[t].pc = "received"
                /\ Message(t).method = "tools/list"
                /\ call'[t] # call[t])
               => {call'[t].response.result.tools[i].name :
                      i \in DOMAIN call'[t].response.result.tools}
                  = TOOL_FUNCTIONS
      ]_vars

\* 'delete_customer' has been answered while the other thread is writing
C13_Witness ==
    /\ call["t1"].pc = "done"
    /\ Message("t1").method = "tools/call"
    /\ Message("t1").params.name = "delete_customer"
    /\ "error" \in DOMAIN call["t1"].response
    /\ call["t2"].pc = "readback"

\* the arguments of a tools/call fail validation, or name an unknown customer
Invalid(t) ==
    LET name == Message(t).params.name
        a == Arguments(t)
    IN  \/ ~(Signature[name].required \subseteq DOMAIN a)
        \/ /\ name = "create_ticket"
           /\ "priority" \in DOMAIN a
           /\ a.priority \notin TicketPriorities
        \/ /\ name = "list_customers"
           /\ "status" \in DOMAIN a
           /\ a.status \notin CustomerStatuses \cup {""}
        \/ /\ name \in {"get_customer", "create_ticket"}
           /\ Binds(name, a)
           /\ a.customer_id \notin DOMAIN customers

\* C14: a tools/call that names a catalogued tool and fails validation (a
\* bad enum value, a required argument missing) or names an unknown
\* customer is answered inline, with a result whose payload has
\* success = false, never with the outer error envelope.
C14_FailuresInline ==
    \A t \in Threads :
       (/\ call[t].pc = "done"
        /\ ToolCall(t)
        /\ Message(t).params.name \in Catalogue
        /\ Invalid(t))
       => /\ "result" \in DOMAIN call[t].response
          /\ ~Payload(t).success

\* C15: the step of a tool in which a storage fault is raised answers the
\* request, inline, with success = false and the 'Database error' message;
\* afterwards the thread delivers its response, is free again, accepts
\* the next request, and a get_customer without a fault returns the
\* stored row.
C15_FaultContained ==
    [][\A t \in Threads :
         /\ (nfaults' # nfaults /\ call'[t] # call[t])
            => /\ call'[t].pc = "done"
               /\ "result" \in DOMAIN call'[t].response
               /\ ~Payload(t)'.success
               /\ Payload(t)'.error.msg = DatabaseError
         /\ (nfaults > 0 /\ call[t].pc = "done")
            => ENABLED mcp_endpoint_yield(t)
         /\ (nfaults > 0 /\ call[t].pc = "idle" /\ ncalls < MaxCalls)
            => \A m \in Messages(t) : ENABLED mcp_endpoint(t, m)
         /\ (/\ nfaults > 0
             /\ nfaults' = nfaults
             /\ Answering(t, "get_customer")
             /\ Arguments(t).customer_id \in DOMAIN customers)
            => /\ Payload(t)'.success
               /\ Payload(t)'.customer = customers[Arguments(t).customer_id]
      ]_vars

\* after a request that hit a storage fault, a get_customer is answered
C15_Witness ==
    /\ nfaults = 1
    /\ ncalls = 2
    /\ \E t \in Threads :
          /\ Returned(t, "get_customer")
          /\ Payload(t).success
          /\ \A u \in Threads \ {t} : call[u].pc = "idle"

\* C16: the response to initialize, tools/list, tools/call (answered by the
\* tool, unknown tool, dispatch fault) and to an unknown method carries the
\* id of the request it answers, and each request gets exactly one
\* response: a thread goes from its request to one response, and from the
\* response only to being free.
C16_IdEchoed ==
    [][\A t \in Threads :
         /\ (call'[t].pc = "done" /\ call'[t] # call[t])
            => /\ call[t].pc \in {"received", "execute", "readback"}
               /\ call'[t].message = call[t].message
               /\ call'[t].response.id = call[t].message.id
         /\ (call[t].pc = "done" /\ call'[t] # call[t])
            => call'[t] = Idle
         /\ (call[t].pc \in {"received", "execute", "readback"}
               /\ call'[t] # call[t])
            => /\ call'[t].pc \in {"execute", "readback", "done"}
               /\ call'[t].message = call[t].message
      ]_vars

\* an unknown method and a dispatch fault, both answered with their ids
C16_Witness ==
    /\ call["t1"].pc = "done"
    /\ Message("t1").method = "resources/list"
    /\ call["t1"].response.id = 1
    /\ call["t2"].pc = "done"
    /\ Message("t2").method = "tools/call"
    /\ call["t2"].response.id = 2
    /\ "error" \in DOMAIN call["t2"].response
    /\ call["t2"].response.error.code = -32603

\* C26: every step keeps the set of customer ids, each customer's id and
\* every ticket there is.  A step of an update_customer call changes at
\* most the customer it names, and of that row only the recognized fields
\* the call provided and updated_at; a create_ticket call adds exactly one
\* ticket, in its INSERT step, and changes nothing else; every other step
\* (initialize, tools/list, the reading tools, unknown tools and methods,
\* the arrival of a request and the delivery of a response) changes nothing.
C26_Frame ==
    [][/\ DOMAIN customers' = DOMAIN customers
       /\ \A c \in DOMAIN customers : customers'[c].id = customers[c].id
       /\ Len(tickets') >= Len(tickets)
       /\ \A i \in DOMAIN tickets : tickets'[i] = tickets[i]
       /\ (\A t \in Threads : call'[t] = call[t])
          => customers' = customers /\ tickets' = tickets
       /\ \A t \in Threads :
            call'[t] # call[t]
            => IF ToolCall(t) /\ Message(t).params.name = "update_customer"
               THEN /\ tickets' = tickets
                    /\ \A c \in DOMAIN customers :
                          customers'[c] # customers[c]
                          => /\ c = Arguments(t).customer_id
                             /\ \A f \in DOMAIN customers[c] :
                                   customers'[c][f] # customers[c][f]
                                   => f \in DOMAIN Updates(Arguments(t).data)
                                               \cup {"updated_at"}
               ELSE IF ToolCall(t) /\ Message(t).params.name = "create_ticket"
               THEN /\ customers' = customers
                    /\ IF call[t].pc = "execute" /\ call'[t].pc = "readback"
                       THEN /\ Len(tickets') = Len(tickets) + 1
                            /\ tickets'[Len(tickets')].customer_id =
                                  Arguments(t).customer_id
                       ELSE tickets' = tickets
               ELSE customers' = customers /\ tickets' = tickets
      ]_vars

\* an update_customer and a create_ticket have both written
C26_Witness ==
    /\ customers # SeedCustomers
    /\ Len(tickets) = Len(SeedTickets) + 1
    /\ \A t \in Threads : call[t].pc = "done"

\* C27: get_customer_history for a customer id that is not in the store
\* returns success with no tickets and count 0, not a not-found failure.
C27_HistoryOfUnknownCustomer ==
    [][\A t \in Threads :
         (/\ Answering(t, "get_customer_history")
          /\ Arguments(t).customer_id \notin DOMAIN customers
          /\ nfaults' = nfaults)
         => Payload(t)' = [success |-> TRUE, count |-> 0, tickets |-> <<>>]
      ]_vars

C27_Witness ==
    \E t \in Threads :
       /\ Returned(t, "get_customer_history")
       /\ Arguments(t).customer_id \notin DOMAIN customers
       /\ Payload(t).success
       /\ Payload(t).count = 0

=============================================================================
